---- MODULE Spec2Model ----
(***************************************************************************)
(* EmbeddingDatabaseService (src/services/embeddingDatabase.js): the       *)
(* singleton that keeps an in-memory set of skill embeddings, a persisted  *)
(* key-value store (mmkvStorage), the embeddings.csv file and the remote   *)
(* skill_embeddings table in step.                                         *)
(*                                                                         *)
(* Every async method is an operator from the machine state m (the         *)
(* instance fields, the store, the file and the log of I/O the call has    *)
(* issued) to the state it leaves, its return value and whether its        *)
(* promise rejected.  The outcomes of the collaborators are inputs: F is   *)
(* the set of I/O call sites that throw in this call, sel the answer of    *)
(* the remote select, up the answers of the remote steps of an upload.     *)
(***************************************************************************)
EXTENDS Integers, Sequences, FiniteSets, TLC

VARIABLES isOfflineMode, initialized, embeddings, store, file, platform, now,
          io, hist, ret, calls, character, modalVisible, alert

vars == <<isOfflineMode, initialized, embeddings, store, file, platform, now,
          io, hist, ret, calls, character, modalVisible, alert>>

\* the state of the weapon skills screen
screen == <<character, modalVisible, alert>>

-----------------------------------------------------------------------------
(* Storage keys *)

LAST_SYNC_KEY == "@embeddings_last_sync"

OFFLINE_MODE_KEY == "@embeddings_offline_mode"

EMBEDDINGS_CACHE_KEY == "@embeddings_cache"

SKILL_NAMES_CACHE_KEY == "@skill_names_cache"

ONE_HOUR == 60 * 60 * 1000

-----------------------------------------------------------------------------
(* Bounds of the model *)

\* whole hours the clock may advance past its reading at construction
MaxHours == 1

\* I/O call sites that may throw within one call
MaxFaults == 1

\* the longest text after the header in the files whose parsing is explored
MaxBody == 5

\* how many calls can be in flight on the instance at once
MaxCalls == 2

\* the longest weapon skills list explored
MaxSkills == 1

\* how many of the weapon options are offered
MaxOptions == 2

\* the largest cost of one skill level, and of a skill in total
MaxCost == 2

\* the build points a character starts with, at most; the points explored
\* stay within MaxPoints of zero
MaxPoints == 2

\* The clock's reading at construction: any reading more than ONE_HOUR after
\* the epoch, as every real Date.now() is.
StartTime == 3 * ONE_HOUR

-----------------------------------------------------------------------------
(* JavaScript values *)

\* A number is [t |-> "number", v |-> n]; NaN and null are values of their own.
Num(n) == [t |-> "number", v |-> n]

NaN == [t |-> "NaN", v |-> 0]

Null == [t |-> "null", v |-> 0]

\* Characters are one-character strings, strings are sequences of characters.
DigitChars == <<"0", "1", "2", "3", "4", "5", "6", "7", "8", "9">>

IsDigit(c) == \E d \in 1..10 : DigitChars[d] = c

DigitValue(c) == (CHOOSE d \in 1..10 : DigitChars[d] = c) - 1

IsSpace(c) == c \in {" ", "\n", "\t", "\r"}

RECURSIVE trim(_)
\* String.prototype.trim
trim(s) ==
    IF s = << >> THEN s
    ELSE IF IsSpace(Head(s)) THEN trim(Tail(s))
    ELSE IF IsSpace(s[Len(s)]) THEN trim(SubSeq(s, 1, Len(s) - 1))
    ELSE s

RECURSIVE split(_, _)
\* String.prototype.split(sep) for a one-character separator
split(s, sep) ==
    IF \A i \in 1..Len(s) : s[i] # sep THEN <<s>>
    ELSE LET p == CHOOSE i \in 1..Len(s) :
                      s[i] = sep /\ \A j \in 1..(i - 1) : s[j] # sep
         IN <<SubSeq(s, 1, p - 1)>> \o split(SubSeq(s, p + 1, Len(s)), sep)

\* rows[i].split(/,(.+)/): the row is cut at its first comma that has at
\* least one character after it; the text after it is the captured group.
splitFirstComma(row) ==
    IF \E i \in 1..(Len(row) - 1) : row[i] = ","
    THEN LET p == CHOOSE i \in 1..(Len(row) - 1) :
                      row[i] = "," /\ \A j \in 1..(i - 1) : row[j] # ","
         IN <<SubSeq(row, 1, p - 1), SubSeq(row, p + 1, Len(row)), << >> >>
    ELSE <<row>>

\* embeddingStr.replace(/"/g, "")
stripQuotes(s) == SelectSeq(s, LAMBDA c : c # "\"")

RECURSIVE digitsValue(_)
digitsValue(s) ==
    IF s = << >> THEN 0
    ELSE 10 * digitsValue(SubSeq(s, 1, Len(s) - 1)) + DigitValue(s[Len(s)])

\* Number(token): the trimmed token read as a decimal number; the empty token
\* is 0, anything that is no number is NaN.
Number(token) ==
    LET t == trim(token)
    IN IF t = << >> THEN Num(0)
       ELSE IF \A i \in 1..Len(t) : IsDigit(t[i]) THEN Num(digitsValue(t))
       ELSE NaN

\* one data row of the CSV, or << >> for a row that is skipped
parseRow(row) ==
    IF trim(row) = << >> THEN << >>
    ELSE LET parts == splitFirstComma(row)
         IN IF Len(parts) < 2 \/ parts[1] = << >> \/ parts[2] = << >> THEN << >>
            ELSE LET toks == split(stripQuotes(parts[2]), " ")
                 IN << [skill |-> parts[1],
                        embedding |-> [k \in 1..Len(toks) |-> Number(toks[k])]] >>

RECURSIVE parseRows(_, _)
parseRows(rows, i) ==
    IF i > Len(rows) THEN << >>
    ELSE parseRow(rows[i]) \o parseRows(rows, i + 1)

\* the body of loadFromCsv between the read and the assignment
parseCsv(content) == parseRows(split(content, "\n"), 2)

-----------------------------------------------------------------------------
(* JSON texts *)

RECURSIVE digits(_)
\* JSON.stringify of a non-negative integer: its decimal digits
digits(n) ==
    IF n < 10 THEN <<DigitChars[n + 1]>>
    ELSE Append(digits(n \div 10), DigitChars[(n % 10) + 1])

stringifyNumber(n) == digits(n)

\* JSON.parse of a text that holds a number
parseNumber(text) == digitsValue(text)

stringifyBool(b) == IF b THEN <<"t", "r", "u", "e">> ELSE <<"f", "a", "l", "s", "e">>

\* JSON.parse of the offline flag's text
parseBool(text) == text = <<"t", "r", "u", "e">>

\* JSON.stringify writes NaN as null; every other number as itself
stringifyValue(x) == IF x.t = "NaN" THEN Null ELSE x

\* JSON.stringify of an embedding set: a JSON array of objects
stringifyEmbeddings(list) ==
    [i \in 1..Len(list) |->
        [skill |-> list[i].skill,
         embedding |-> [k \in 1..Len(list[i].embedding) |->
                            stringifyValue(list[i].embedding[k])]]]

\* JSON.parse of a cache text: the array the text describes (the text is kept
\* as that array; what stringifyEmbeddings changed on the way in stays changed)
parseEmbeddings(text) == [i \in 1..Len(text) |-> text[i]]

-----------------------------------------------------------------------------
(* The collaborators *)

\* the header loadFromCsv writes into a file it creates: "Skill,Embedding\n"
Header ==
    <<"S", "k", "i", "l", "l", ",", "E", "m", "b", "e", "d", "d", "i", "n", "g", "\n">>

Log(m, e) == [m EXCEPT !.io = Append(@, e)]

\* the store after mmkvStorage.set(key, text)
put(st, key, text) ==
    [k \in (DOMAIN st) \cup {key} |-> IF k = key THEN text ELSE st[k]]

\* await mmkvStorage.getString(key) at call site `site`: the call is logged,
\* throws when the site is in F, and else yields the text or undefined
getString(m, site, key, F) ==
    [m |-> Log(m, <<"getString", key, IF site \in F THEN "throw" ELSE "ok">>),
     threw |-> site \in F,
     defined |-> key \in DOMAIN m.store,
     text |-> IF key \in DOMAIN m.store THEN m.store[key] ELSE << >>]

\* await mmkvStorage.set(key, text) at call site `site`
set(m, site, key, text, F) ==
    LET l == Log(m, <<"set", key, IF site \in F THEN "throw" ELSE "ok">>)
    IN [m |-> IF site \in F THEN l ELSE [l EXCEPT !.store = put(@, key, text)],
        threw |-> site \in F]

\* `str ? ... : ...` on what getString gave: undefined is falsy, and every
\* text JSON.stringify writes is a non-empty string
truthy(g) == g.defined

\* one remote row as the local entry (the map of syncFromCloud)
fromRow(item) == [skill |-> item.skill_name, embedding |-> item.embedding_vector]

\* one local entry as a remote row (the map of uploadToCloud)
toRow(item) == [skill_name |-> item.skill, embedding_vector |-> item.embedding]

\* String.prototype.includes
includes(s, sub) ==
    \E i \in 0..(Len(s) - Len(sub)) : SubSeq(s, i + 1, i + Len(sub)) = sub

\* "permission denied"
PermissionDeniedText ==
    <<"p", "e", "r", "m", "i", "s", "s", "i", "o", "n", " ", "d", "e", "n", "i", "e", "d">>

\* variant: no failure of the delete is tolerated
noneTolerated(err) == FALSE

\* deleteError.code === "42501" || deleteError.message?.includes("permission denied")
permissionDenied(err) ==
    err.code = "42501" \/ includes(err.message, PermissionDeniedText)

-----------------------------------------------------------------------------
(* The methods of EmbeddingDatabaseService *)

\* sequencing: v has been computed (awaited), the rest of the method runs on it
Then(v, Rest(_)) == Rest(v)

\* an embeddings.csv with three data rows: a repeated name and a token that
\* is no number
CsvSample ==
    Header \o <<"a", ",", "\"", "1", " ", "2", "\"", "\n",
                "b", ",", "x", "\n",
                "a", ",", "2">>

\* parseCsv of the contents the file holds in this model, computed once
ParsedContents == [c \in {Header, CsvSample} |-> parseCsv(c)]

\* lines 110-125 of loadFromCsv on what readAsStringAsync gave
parsedCsv(content) ==
    IF content \in DOMAIN ParsedContents THEN ParsedContents[content]
    ELSE parseCsv(content)

loadFromCsv(m, F) ==
    Then(m.platform # "web", LAMBDA native :
    Then(IF native
         THEN Log(m, <<"file", "getInfoAsync",
                       IF "loadFromCsv:getInfoAsync" \in F THEN "throw" ELSE "ok">>)
         ELSE m, LAMBDA m1 :
    IF native /\ "loadFromCsv:getInfoAsync" \in F THEN [m |-> m1, ret |-> << >>]
    ELSE
    Then(IF ~native \/ m1.file.exists THEN m1
         ELSE IF "loadFromCsv:writeAsStringAsync" \in F
         THEN Log(m1, <<"file", "writeAsStringAsync", "throw">>)
         ELSE [Log(m1, <<"file", "writeAsStringAsync", "ok">>)
                   EXCEPT !.file = [exists |-> TRUE, content |-> Header]], LAMBDA m2 :
    Then("loadFromCsv:readAsStringAsync" \in F \/ ~m2.file.exists, LAMBDA readThrew :
    Then(Log(m2, <<"file", "readAsStringAsync", IF readThrew THEN "throw" ELSE "ok">>),
         LAMBDA m3 :
    IF readThrew THEN [m |-> m3, ret |-> << >>]
    ELSE
    Then(parsedCsv(m2.file.content), LAMBDA parsed :
    Then(set([m3 EXCEPT !.embeddings = parsed], "loadFromCsv:set", EMBEDDINGS_CACHE_KEY,
             stringifyEmbeddings(parsed), F), LAMBDA s :
    IF s.threw THEN [m |-> s.m, ret |-> << >>]
    ELSE [m |-> s.m, ret |-> parsed])))))))

loadCachedEmbeddings(m, F) ==
    Then(getString(m, "loadCachedEmbeddings:getString", EMBEDDINGS_CACHE_KEY, F), LAMBDA g :
    IF g.threw THEN [m |-> g.m, ret |-> << >>]
    ELSE IF truthy(g)
    THEN Then(parseEmbeddings(g.text), LAMBDA e :
              [m |-> [g.m EXCEPT !.embeddings = e], ret |-> e])
    ELSE Then(loadFromCsv(g.m, F), LAMBDA c :
              [m |-> c.m, ret |-> c.m.embeddings]))

\* variant: initialize runs again on every call
neverInitialized(m) == FALSE

\* if (this.initialized) return;
alreadyInitialized(m) == m.initialized

initialize(m, F) ==
    IF alreadyInitialized(m) THEN [m |-> m, threw |-> FALSE]
    ELSE
    Then(getString(m, "initialize:getString", OFFLINE_MODE_KEY, F), LAMBDA g :
    IF g.threw THEN [m |-> g.m, threw |-> TRUE]
    ELSE
    Then([g.m EXCEPT !.isOfflineMode = IF truthy(g) THEN parseBool(g.text) ELSE FALSE],
         LAMBDA m1 :
    Then(loadCachedEmbeddings(m1, F), LAMBDA c :
    [m |-> [c.m EXCEPT !.initialized = TRUE], threw |-> FALSE])))

\* variant: the flag is set in memory and never persisted
setOfflineModeInMemoryOnly(m, F, isOffline) ==
    [m |-> [m EXCEPT !.isOfflineMode = isOffline], threw |-> FALSE]

setOfflineMode(m, F, isOffline) ==
    set([m EXCEPT !.isOfflineMode = isOffline], "setOfflineMode:set",
        OFFLINE_MODE_KEY, stringifyBool(isOffline), F)

getOfflineMode(m) == m.isOfflineMode

getLastSyncTime(m, F) ==
    Then(getString(m, "getLastSyncTime:getString", LAST_SYNC_KEY, F), LAMBDA g :
    [m |-> g.m, threw |-> g.threw,
     ret |-> IF truthy(g) THEN Num(parseNumber(g.text)) ELSE Null])

\* data.map((item) => ({skill: item.skill_name, embedding: item.embedding_vector}))
mapRows(data) == [i \in 1..Len(data) |-> fromRow(data[i])]

\* variant: a failed read makes the call reject
rejectSync(m1) == [m |-> m1, ret |-> << >>, threw |-> TRUE]

\* variant: a failed read empties the set in memory
dropSet(m1) == [m |-> [m1 EXCEPT !.embeddings = << >>], ret |-> << >>, threw |-> FALSE]

\* `return this.embeddings || []` after a failed or empty read: the error is
\* logged and the set in memory is the result
keepSet(m1) == [m |-> m1, ret |-> m1.embeddings, threw |-> FALSE]

\* variant: the rows are added to the set in memory
merged(previous, data) == previous \o mapRows(data)

\* this.embeddings = data.map(...): the set that replaces `previous`
refreshed(previous, data) == mapRows(data)

\* variant: the sync also writes the cache blob
persistSyncWithCache(m2, F, data, t) ==
    Then(set(m2, "syncFromCloud:set:LAST_SYNC_KEY", EMBEDDINGS_CACHE_KEY,
             stringifyEmbeddings(m2.embeddings), F), LAMBDA s0 :
    IF s0.threw THEN s0
    ELSE
    Then(set(s0.m, "syncFromCloud:set:LAST_SYNC_KEY", LAST_SYNC_KEY, stringifyNumber(t), F),
         LAMBDA s1 :
    IF s1.threw THEN s1
    ELSE set(s1.m, "syncFromCloud:set:SKILL_NAMES_CACHE_KEY", SKILL_NAMES_CACHE_KEY,
             [i \in 1..Len(data) |-> data[i].skill_name], F)))

\* what a sync persists: the timestamp, then the skill names
persistSync(m2, F, data, t) ==
    Then(set(m2, "syncFromCloud:set:LAST_SYNC_KEY", LAST_SYNC_KEY, stringifyNumber(t), F),
         LAMBDA s1 :
    IF s1.threw THEN s1
    ELSE set(s1.m, "syncFromCloud:set:SKILL_NAMES_CACHE_KEY", SKILL_NAMES_CACHE_KEY,
             [i \in 1..Len(data) |-> data[i].skill_name], F))

\* variant: any data that is not null counts as rows
anyData(sel) == sel.kind # "null"

\* data && data.length > 0
hasRows(sel) == sel.kind # "null" /\ Len(sel.data) > 0

\* sel is the answer of the remote select: it threw, or gave {data, error};
\* t is what Date.now() reads when the timestamp is written
syncFromCloud(m, F, sel, t) ==
    Then(Log(m, <<"remote", "select", sel.kind>>), LAMBDA m1 :
    IF sel.kind \in {"throw", "error"} THEN keepSet(m1)
    ELSE IF hasRows(sel)
    THEN keepSet(persistSync([m1 EXCEPT !.embeddings = refreshed(@, sel.data)],
                             F, sel.data, t).m)
    ELSE keepSet(m1))

\* the upload once the embeddings are in memory: the remote steps
uploadSteps(m1, F, up, t) ==
    Then([i \in 1..Len(m1.embeddings) |-> toRow(m1.embeddings[i])], LAMBDA dataToUpload :
    Then(Log(m1, <<"remote", "getSession", up.session>>), LAMBDA m2 :
    IF up.session = "throw" THEN [m |-> m2, ret |-> FALSE, sent |-> << >>]
    ELSE
    Then(IF up.session = "none"
         THEN Log(m2, <<"remote", "signInAnonymously", up.signIn>>) ELSE m2, LAMBDA m3 :
    IF up.session = "none" /\ up.signIn # "ok" THEN [m |-> m3, ret |-> FALSE, sent |-> << >>]
    ELSE
    Then(Log(m3, <<"remote", "delete", up.delete.kind, up.delete.code, up.delete.message>>),
         LAMBDA m4 :
    IF up.delete.kind = "throw" THEN [m |-> m4, ret |-> FALSE, sent |-> << >>]
    ELSE IF up.delete.kind = "error" /\ ~permissionDenied(up.delete)
    THEN [m |-> m4, ret |-> FALSE, sent |-> << >>]
    ELSE
    Then(Log(m4, <<"remote", "upsert", up.upsert>>), LAMBDA m5 :
    IF up.upsert # "ok" THEN [m |-> m5, ret |-> FALSE, sent |-> dataToUpload]
    ELSE
    Then(set(m5, "uploadToCloud:set", LAST_SYNC_KEY, stringifyNumber(t), F), LAMBDA s :
    [m |-> s.m, ret |-> ~s.threw, sent |-> dataToUpload]))))))

\* variant: the upload runs in offline mode too
uploadToCloudUnguarded(m, F, up, t) ==
    uploadSteps(IF Len(m.embeddings) = 0 THEN loadCachedEmbeddings(m, F).m ELSE m,
                F, up, t)

\* up holds the answers of the remote steps: session, signIn, delete, upsert
uploadToCloud(m, F, up, t) ==
    IF m.isOfflineMode THEN [m |-> m, ret |-> FALSE, sent |-> << >>]
    ELSE uploadSteps(IF Len(m.embeddings) = 0 THEN loadCachedEmbeddings(m, F).m ELSE m,
                     F, up, t)

\* variant: a sync exactly one hour old counts as stale
staleFromTheHour(t, lastSync) == t - lastSync >= ONE_HOUR

\* Date.now() - lastSync > ONE_HOUR
stale(t, lastSync) == t - lastSync > ONE_HOUR

\* getEmbeddings up to its decision on a sync: initialize, the load of an
\* empty set, and online the test of the last sync against the clock reading t
beforeSync(m, F, t) ==
    Then(initialize(m, F), LAMBDA i :
    IF i.threw THEN [m |-> i.m, threw |-> TRUE, sync |-> FALSE]
    ELSE
    Then(IF Len(i.m.embeddings) = 0 THEN loadCachedEmbeddings(i.m, F).m ELSE i.m, LAMBDA m1 :
    IF m1.isOfflineMode THEN [m |-> m1, threw |-> FALSE, sync |-> FALSE]
    ELSE
    Then(getString(m1, "getEmbeddings:getString", LAST_SYNC_KEY, F), LAMBDA g :
    [m |-> g.m, threw |-> g.threw,
     sync |-> ~g.threw /\ stale(t, IF truthy(g) THEN parseNumber(g.text) ELSE 0)])))

\* t is what Date.now() reads during the call
getEmbeddings(m, F, sel, t) ==
    Then(beforeSync(m, F, t), LAMBDA b :
    IF b.threw THEN [m |-> b.m, ret |-> << >>, threw |-> TRUE]
    ELSE IF b.sync THEN syncFromCloud(b.m, F, sel, t)
    ELSE [m |-> b.m, ret |-> b.m.embeddings, threw |-> FALSE])

\* variant: the last entry of the name
findLast(list, skillName) ==
    IF \E i \in 1..Len(list) : list[i].skill = skillName
    THEN <<list[CHOOSE i \in 1..Len(list) :
                 /\ list[i].skill = skillName
                 /\ \A j \in (i + 1)..Len(list) : list[j].skill # skillName]>>
    ELSE << >>

\* embeddings.find((item) => item.skill === skillName): << >> is undefined
find(list, skillName) ==
    IF \E i \in 1..Len(list) : list[i].skill = skillName
    THEN <<list[CHOOSE i \in 1..Len(list) :
                 /\ list[i].skill = skillName
                 /\ \A j \in 1..(i - 1) : list[j].skill # skillName]>>
    ELSE << >>

getEmbeddingBySkill(m, F, sel, t, skillName) ==
    Then(getEmbeddings(m, F, sel, t), LAMBDA e :
    [m |-> e.m, threw |-> e.threw, got |-> e.ret,
     ret |-> IF e.threw THEN << >> ELSE find(e.ret, skillName)])

-----------------------------------------------------------------------------
(* What the collaborators may hold and answer *)

\* the rows the remote select answers with, in ascending skill_name order
RemoteRows ==
    << [skill_name |-> <<"a">>, embedding_vector |-> <<Num(3)>>],
       [skill_name |-> <<"b">>, embedding_vector |-> <<Num(4), Num(5)>>] >>

SelectOutcomes ==
    {[kind |-> k, data |-> << >>] : k \in {"throw", "error", "null", "empty"}}
        \cup {[kind |-> "data", data |-> RemoteRows]}

NoError == [kind |-> "ok", code |-> "", message |-> << >>]

\* the delete throws, or answers with an error that is no permission error:
\* another code, and a message that says so in another case
DeleteFailures ==
    {[kind |-> "throw", code |-> "", message |-> << >>],
     [kind |-> "error", code |-> "08006",
      message |-> <<"P", "e", "r", "m", "i", "s", "s", "i", "o", "n", " ", "d", "e", "n", "i", "e", "d">>]}

\* the delete succeeds, or answers with a permission error: by its code, or by
\* a message that contains the text
DeleteTolerated ==
    {NoError,
     [kind |-> "error", code |-> "42501", message |-> <<"r", "l", "s">>],
     [kind |-> "error", code |-> "",
      message |-> <<"x", ":", " ", "p", "e", "r", "m", "i", "s", "s", "i", "o", "n", " ", "d", "e", "n", "i", "e", "d", ".">>]}

\* the answers of the remote steps of one upload, up to the first that ends it
UploadOutcomes ==
    {[session |-> "throw", signIn |-> "ok", delete |-> NoError, upsert |-> "ok"]}
        \cup {[session |-> "none", signIn |-> r, delete |-> NoError, upsert |-> "ok"] :
                  r \in {"ok", "error", "throw"}}
        \cup {[session |-> "session", signIn |-> "ok", delete |-> d, upsert |-> "ok"] :
                  d \in DeleteFailures}
        \cup {[session |-> "session", signIn |-> "ok", delete |-> d, upsert |-> u] :
                  d \in DeleteTolerated, u \in {"ok", "error", "throw"}}

\* the names looked up: one the sets hold, one they hold in another case only
SkillNames == {<<"a">>, <<"A">>}

SyncSites == {"syncFromCloud:set:LAST_SYNC_KEY", "syncFromCloud:set:SKILL_NAMES_CACHE_KEY"}

\* the sets of call sites that throw within one call
Faults(sites) == {F \in SUBSET sites : Cardinality(F) <= MaxFaults}

-----------------------------------------------------------------------------
(* The state machine *)

Call(op, arg) == [op |-> op, arg |-> arg]

\* What the caller got: its kind, and the value in the field of that kind.
\* For getEmbeddingBySkill, list is the set getEmbeddings gave and entry what
\* find gave in it.
Returned(kind) ==
    [kind |-> kind, list |-> << >>, entry |-> << >>, bool |-> FALSE, num |-> Null]

Undefined == Returned("undefined")

Rejected == Returned("rejected")

RetList(l) == [Returned("list") EXCEPT !.list = l]

RetBool(b) == [Returned("boolean") EXCEPT !.bool = b]

RetNum(v) == [Returned("number") EXCEPT !.num = v]

\* find's result in the set `got`: the entry, or undefined
RetEntry(got, e) ==
    [Returned(IF e = << >> THEN "undefined" ELSE "entry") EXCEPT !.list = got, !.entry = e]

\* the instance and its collaborators as a call finds them
M ==
    [isOfflineMode |-> isOfflineMode, initialized |-> initialized,
     embeddings |-> embeddings, store |-> store, file |-> file,
     platform |-> platform, io |-> << >>]

\* no call is on record: the caller has taken the last result
NoCall == Call("none", << >>)

\* nothing delivered by an awaited call
NoValue == [defined |-> FALSE, text |-> << >>]

\* A call in flight: the method and its argument, the await it is suspended
\* at (pc), whether it is inside initialize() or past it (phase), what the
\* awaited call will deliver (got), and what it returned once done.
IdleFrame ==
    [op |-> "none", arg |-> FALSE, pc |-> "idle", phase |-> "none", got |-> NoValue,
     ret |-> << >>]

\* no call in flight; `from` is for the instance and collaborators as the
\* first of overlapping calls found them
NoCalls == [frame |-> [c \in 1..MaxCalls |-> IdleFrame], from |-> << >>]

\* The call settles: m is what it left, r what the caller got, io' the I/O
\* it issued.  A call starts when the last result has been taken.
Commit(m, call, r) ==
    /\ isOfflineMode' = m.isOfflineMode
    /\ initialized' = m.initialized
    /\ embeddings' = m.embeddings
    /\ store' = m.store
    /\ file' = m.file
    /\ io' = m.io
    /\ hist' = call
    /\ ret' = r
    /\ UNCHANGED <<platform, now, calls, screen>>

\* The I/O call sites a call can reach from the state it starts in (a throw
\* at a site the call never reaches changes nothing).  loadFromCsv asks for
\* the file's info on a native platform only, and writes the file only if it
\* is missing; loadCachedEmbeddings goes to the CSV only without a cache.
CsvSites ==
    {"loadFromCsv:readAsStringAsync", "loadFromCsv:set"}
        \cup (IF platform = "web" THEN {} ELSE {"loadFromCsv:getInfoAsync"})
        \cup (IF platform = "web" \/ file.exists THEN {}
              ELSE {"loadFromCsv:writeAsStringAsync"})

LoadSites ==
    {"loadCachedEmbeddings:getString"}
        \cup (IF EMBEDDINGS_CACHE_KEY \in DOMAIN store THEN {} ELSE CsvSites)

InitSites == IF initialized THEN {} ELSE {"initialize:getString"} \cup LoadSites

\* getEmbeddings, up to its decision on a sync
GetSites ==
    InitSites
        \cup (IF initialized /\ Len(embeddings) > 0 THEN {} ELSE LoadSites)
        \cup (IF initialized /\ isOfflineMode THEN {} ELSE {"getEmbeddings:getString"})

\* uploadToCloud, up to its remote steps
UploadSites ==
    IF isOfflineMode \/ Len(embeddings) > 0 THEN {} ELSE LoadSites

\* a remote answer, for a call that never asks for one
AnySelect == CHOOSE o \in SelectOutcomes : TRUE

AnyUpload == CHOOSE u \in UploadOutcomes : TRUE

\* What can happen to a sync that starts after the faults F1: any answer of
\* the select, and throws of the store writes that follow an answer with rows.
SyncInputs(F1) ==
    {[F |-> F1, sel |-> sel] : sel \in {o \in SelectOutcomes : o.kind # "data"}}
        \cup {[F |-> F1 \cup F2, sel |-> sel] :
                  F2 \in {G \in Faults(SyncSites) : Cardinality(F1 \cup G) <= MaxFaults},
                  sel \in {o \in SelectOutcomes : o.kind = "data"}}

\* What can happen to a getEmbeddings() at the clock reading t: the faults
\* before its decision on a sync and, if it syncs, what can happen to the sync.
GetInputs(t) ==
    UNION {IF beforeSync(M, F1, t).sync THEN SyncInputs(F1)
           ELSE {[F |-> F1, sel |-> AnySelect]} : F1 \in Faults(GetSites)}

\* What can happen to an uploadToCloud(): the faults of its load, the answers
\* of the remote steps, and a throw of the timestamp write if they all succeed.
UploadInputs ==
    IF isOfflineMode THEN {[F |-> {}, up |-> AnyUpload]}
    ELSE UNION {{[F |-> F1 \cup F2, up |-> up] :
                     F2 \in IF up.upsert = "ok" /\ Cardinality(F1) < MaxFaults
                            THEN {{}, {"uploadToCloud:set"}} ELSE {{}}} :
                <<F1, up>> \in Faults(UploadSites) \X UploadOutcomes}

\* whether the call asked the remote service for `what`
Asked(log, what) == \E k \in 1..Len(log) : log[k][1] = "remote" /\ log[k][2] = what

AskedRemote(log) == \E k \in 1..Len(log) : log[k][1] = "remote"

\* what the store may hold when the process starts, written by earlier runs:
\* the offline flag, the timestamp and names of a sync that ended ONE_HOUR
\* before the start, the cache of a CSV load of the file's content
InitStore(off, synced, cached, content) ==
    [k \in (IF off = "absent" THEN {} ELSE {OFFLINE_MODE_KEY})
              \cup (IF synced THEN {LAST_SYNC_KEY, SKILL_NAMES_CACHE_KEY} ELSE {})
              \cup (IF cached THEN {EMBEDDINGS_CACHE_KEY} ELSE {}) |->
        CASE k = OFFLINE_MODE_KEY -> stringifyBool(off = "true")
          [] k = LAST_SYNC_KEY -> stringifyNumber(StartTime - ONE_HOUR)
          [] k = SKILL_NAMES_CACHE_KEY -> [i \in 1..Len(RemoteRows) |-> RemoteRows[i].skill_name]
          [] k = EMBEDDINGS_CACHE_KEY -> stringifyEmbeddings(parseCsv(content))]

\* the platform and the file at csvPath: a web build ships the file, a
\* native one may not have it yet
InitFiles ==
    {[platform |-> "web", file |-> [exists |-> TRUE, content |-> CsvSample]],
     [platform |-> "ios", file |-> [exists |-> TRUE, content |-> CsvSample]],
     [platform |-> "ios", file |-> [exists |-> FALSE, content |-> << >>]]}

\* a character with no build points and no weapon skills
NoCharacter ==
    [base |-> [buildPointsRemaining |-> 0, buildPointsSpent |-> 0],
     skills |-> [weaponSkills |-> << >>]]

\* no confirmation dialog is open
NoAlert == [open |-> FALSE, skill |-> << >>, base |-> << >>, skills |-> << >>]

\* the weapon skills screen is not shown
ScreenNotMounted ==
    /\ character = NoCharacter
    /\ modalVisible = FALSE
    /\ alert = NoAlert

\* the instance after construction, with what the collaborators hold
Constructed ==
    /\ isOfflineMode = FALSE
    /\ initialized = FALSE
    /\ embeddings = << >>
    /\ \E pf \in InitFiles, off \in {"absent", "true", "false"}, synced \in BOOLEAN,
          cached \in BOOLEAN :
          /\ cached => pf.file.exists
          /\ platform = pf.platform
          /\ file = pf.file
          /\ store = InitStore(off, synced, cached, pf.file.content)
    /\ now = StartTime
    /\ io = << >>
    /\ hist = NoCall
    /\ ret = Undefined
    /\ ScreenNotMounted

Init == Constructed /\ calls = NoCalls

\* the caller takes the result: the record of the call is dropped
TakeResult ==
    /\ hist # NoCall
    /\ hist' = NoCall
    /\ io' = << >>
    /\ ret' = Undefined
    /\ UNCHANGED <<isOfflineMode, initialized, embeddings, store, file, platform, now,
                   calls, screen>>

\* Time passes between calls.  The clock is read on the hour after its
\* reading at construction and one millisecond past the hour: a whole hour
\* and a millisecond are the steps that decide Date.now() - lastSync > ONE_HOUR.
Tick ==
    /\ hist = NoCall
    /\ \E d \in {1, ONE_HOUR} :
          /\ (now + d - StartTime) \div ONE_HOUR <= MaxHours
          /\ (now + d - StartTime) % ONE_HOUR <= 1
          /\ now' = now + d
    /\ UNCHANGED <<isOfflineMode, initialized, embeddings, store, file, platform,
                   io, hist, ret, calls, screen>>

CallInitialize ==
    /\ hist = NoCall
    /\ \E F \in Faults(InitSites) :
           LET r == initialize(M, F)
           IN Commit(r.m, Call("initialize", << >>), IF r.threw THEN Rejected ELSE Undefined)

CallSetOfflineMode ==
    /\ hist = NoCall
    /\ \E isOffline \in BOOLEAN, F \in Faults({"setOfflineMode:set"}) :
           LET r == setOfflineMode(M, F, isOffline)
           IN Commit(r.m, Call("setOfflineMode", stringifyBool(isOffline)),
                     IF r.threw THEN Rejected ELSE Undefined)

CallGetOfflineMode ==
    /\ hist = NoCall
    /\ Commit(M, Call("getOfflineMode", << >>), RetBool(getOfflineMode(M)))

CallGetLastSyncTime ==
    /\ hist = NoCall
    /\ \E F \in Faults({"getLastSyncTime:getString"}) :
           LET r == getLastSyncTime(M, F)
           IN Commit(r.m, Call("getLastSyncTime", << >>),
                     IF r.threw THEN Rejected ELSE RetNum(r.ret))

CallLoadCachedEmbeddings ==
    /\ hist = NoCall
    /\ \E F \in Faults(LoadSites) :
           LET r == loadCachedEmbeddings(M, F)
           IN Commit(r.m, Call("loadCachedEmbeddings", << >>), RetList(r.ret))

CallLoadFromCsv ==
    /\ hist = NoCall
    /\ \E F \in Faults(CsvSites) :
           LET r == loadFromCsv(M, F)
           IN Commit(r.m, Call("loadFromCsv", << >>), RetList(r.ret))

CallSyncFromCloud ==
    /\ hist = NoCall
    /\ \E x \in SyncInputs({}) :
           LET r == syncFromCloud(M, x.F, x.sel, now)
           IN Commit(r.m, Call("syncFromCloud", << >>), RetList(r.ret))

CallUploadToCloud ==
    /\ hist = NoCall
    /\ \E x \in UploadInputs :
           LET r == uploadToCloud(M, x.F, x.up, now)
           IN Commit(r.m, Call("uploadToCloud", << >>), RetBool(r.ret))

CallGetEmbeddings ==
    /\ hist = NoCall
    /\ \E x \in GetInputs(now) :
           LET r == getEmbeddings(M, x.F, x.sel, now)
           IN Commit(r.m, Call("getEmbeddings", << >>),
                     IF r.threw THEN Rejected ELSE RetList(r.ret))

CallGetEmbeddingBySkill ==
    /\ hist = NoCall
    /\ \E x \in GetInputs(now), skillName \in SkillNames :
           LET r == getEmbeddingBySkill(M, x.F, x.sel, now, skillName)
           IN Commit(r.m, Call("getEmbeddingBySkill", skillName),
                     IF r.threw THEN Rejected ELSE RetEntry(r.got, r.ret))

Next ==
    \/ Tick
    \/ TakeResult
    \/ CallInitialize
    \/ CallSetOfflineMode
    \/ CallGetOfflineMode
    \/ CallGetLastSyncTime
    \/ CallLoadCachedEmbeddings
    \/ CallLoadFromCsv
    \/ CallSyncFromCloud
    \/ CallUploadToCloud
    \/ CallGetEmbeddings
    \/ CallGetEmbeddingBySkill

Spec == Init /\ [][Next]_vars

-----------------------------------------------------------------------------
(* What a call left on record *)

\* the clock readings from the current one on
LaterReadings ==
    {t \in {StartTime + k * ONE_HOUR + d : k \in 0..MaxHours, d \in {0, 1}} : t >= now}

\* the answer the remote select gave during the call, "none" if none was sent
SelectAnswer(log) ==
    IF Asked(log, "select")
    THEN log[CHOOSE k \in 1..Len(log) : log[k][1] = "remote" /\ log[k][2] = "select"][3]
    ELSE "none"

\* whether the call wrote `key` to the store, the write completing
Wrote(log, key) ==
    \E k \in 1..Len(log) : log[k] = <<"set", key, "ok">>

\* whether the call tried to write `key`
TriedToWrite(log, key) ==
    \E k \in 1..Len(log) : log[k][1] = "set" /\ log[k][2] = key

\* the last sync the store records, 0 if none
RecordedSync(st) ==
    IF LAST_SYNC_KEY \in DOMAIN st THEN parseNumber(st[LAST_SYNC_KEY]) ELSE 0

-----------------------------------------------------------------------------
(* C1 *)

\* C1: once setOfflineMode(true) has completed, a getEmbeddings() call made at
\* any later time sends nothing to the remote service, however stale the
\* recorded sync is, whether or not initialize() had run, and whatever the
\* store does during the call.
C1_OfflineNeverPulls ==
    (hist = Call("setOfflineMode", stringifyBool(TRUE)) /\ ret = Undefined) =>
        \A t \in LaterReadings : \A x \in GetInputs(t) :
            ~AskedRemote(getEmbeddings(M, x.F, x.sel, t).m.io)

\* setOfflineMode(true) completed on an instance that never initialized and
\* never synced; the getEmbeddings() that follows initializes, stays offline
\* and answers from the local set
C1_Witness ==
    /\ hist = Call("setOfflineMode", stringifyBool(TRUE))
    /\ ret = Undefined
    /\ ~initialized
    /\ LAST_SYNC_KEY \notin DOMAIN store
    /\ \E sel \in SelectOutcomes :
          LET r == getEmbeddings(M, {}, sel, now)
          IN /\ ~r.threw
             /\ r.m.initialized
             /\ r.m.isOfflineMode
             /\ Len(r.ret) > 0
             /\ ~AskedRemote(r.m.io)

-----------------------------------------------------------------------------
(* C2 *)

\* the getEmbeddings() call on record returned online
FirstCallOnline ==
    /\ hist = Call("getEmbeddings", << >>)
    /\ ret.kind = "list"
    /\ ~isOfflineMode

\* A getEmbeddings() call pulls exactly when it gets to `return
\* this.syncFromCloud()`, the select being the first thing a sync does.
\*
\* C2 as stated: online, of two getEmbeddings() calls at most one hour apart
\* at most one pulls, and a call made more than one hour after the last
\* recorded sync pulls.
C2_AsStated ==
    FirstCallOnline =>
        \A t2 \in LaterReadings, F \in Faults(GetSites) :
            LET second == beforeSync(M, F, t2)
            IN /\ (t2 - now <= ONE_HOUR) => ~(Asked(io, "select") /\ second.sync)
               /\ stale(t2, RecordedSync(store)) => second.sync

\* C2, amended: online, of two getEmbeddings() calls at most one hour apart
\* the second does not pull when the first pulled rows and recorded its
\* timestamp; and a call made more than one hour after the last recorded sync
\* pulls, or rejects on a store read that fails before the pull.
C2_OnePullPerRecordedSync ==
    FirstCallOnline =>
        \A t2 \in LaterReadings, F \in Faults(GetSites) :
            LET second == beforeSync(M, F, t2)
            IN /\ (t2 - now <= ONE_HOUR /\ SelectAnswer(io) = "data"
                                        /\ Wrote(io, LAST_SYNC_KEY)) => ~second.sync
               /\ stale(t2, RecordedSync(store)) => (second.sync \/ second.threw)

\* a first call pulled rows and recorded its timestamp; a second call exactly
\* one hour later does not pull, one a millisecond after that does
C2_Witness ==
    /\ FirstCallOnline
    /\ SelectAnswer(io) = "data"
    /\ Wrote(io, LAST_SYNC_KEY)
    /\ now + ONE_HOUR + 1 \in LaterReadings
    /\ ~beforeSync(M, {}, now + ONE_HOUR).sync
    /\ ~Asked(getEmbeddings(M, {}, AnySelect, now + ONE_HOUR).m.io, "select")
    /\ beforeSync(M, {}, now + ONE_HOUR + 1).sync
    /\ Asked(getEmbeddings(M, {}, AnySelect, now + ONE_HOUR + 1).m.io, "select")

-----------------------------------------------------------------------------
(* C3 *)

\* C3: when the remote select of a syncFromCloud() call returns an error or
\* throws, the set in memory is what it was before the call, the store (the
\* last-sync timestamp and the skill names with it) is not written, and the
\* call returns the previous set.
C3_FailedSyncKeepsEverything ==
    [][(hist' = Call("syncFromCloud", << >>) /\ SelectAnswer(io') \in {"error", "throw"}) =>
           /\ embeddings' = embeddings
           /\ store' = store
           /\ ~TriedToWrite(io', LAST_SYNC_KEY)
           /\ ~TriedToWrite(io', SKILL_NAMES_CACHE_KEY)
           /\ ret' = RetList(embeddings)]_vars

\* a sync whose select returned an error, on an instance holding a set and a
\* recorded sync
C3_Witness ==
    /\ hist = Call("syncFromCloud", << >>)
    /\ SelectAnswer(io) = "error"
    /\ Len(embeddings) > 0
    /\ ret = RetList(embeddings)
    /\ LAST_SYNC_KEY \in DOMAIN store

-----------------------------------------------------------------------------
(* C4 *)

\* the syncFromCloud() call on record received the remote rows
SyncedRows ==
    /\ hist = Call("syncFromCloud", << >>)
    /\ SelectAnswer(io) = "data"

\* C4 as stated: after a syncFromCloud() that received rows S and wrote the
\* store without failure, loadCachedEmbeddings() returns S, entry for entry.
C4_AsStated ==
    (SyncedRows /\ Wrote(io, LAST_SYNC_KEY) /\ Wrote(io, SKILL_NAMES_CACHE_KEY)) =>
        loadCachedEmbeddings(M, {}).ret = mapRows(RemoteRows)

\* C4, amended: a syncFromCloud() that receives rows S never writes the
\* persisted cache blob; it persists S's skill names in S's order; and a
\* loadCachedEmbeddings() that follows, a blob being present, returns the set
\* decoded from the blob as it was before the sync.
C4_SyncLeavesCacheBlob ==
    [][(hist' = Call("syncFromCloud", << >>) /\ SelectAnswer(io') = "data") =>
           /\ ~TriedToWrite(io', EMBEDDINGS_CACHE_KEY)
           /\ (EMBEDDINGS_CACHE_KEY \in DOMAIN store') = (EMBEDDINGS_CACHE_KEY \in DOMAIN store)
           /\ EMBEDDINGS_CACHE_KEY \in DOMAIN store =>
                  /\ store'[EMBEDDINGS_CACHE_KEY] = store[EMBEDDINGS_CACHE_KEY]
                  /\ loadCachedEmbeddings([M EXCEPT !.embeddings = embeddings',
                                                    !.store = store'], {}).ret
                         = parseEmbeddings(store[EMBEDDINGS_CACHE_KEY])
           /\ Wrote(io', SKILL_NAMES_CACHE_KEY) =>
                  store'[SKILL_NAMES_CACHE_KEY]
                      = [i \in 1..Len(RemoteRows) |-> RemoteRows[i].skill_name]]_vars

\* a sync received the rows and wrote timestamp and names; the blob in the
\* store decodes to another set than the one now in memory
C4_Witness ==
    /\ SyncedRows
    /\ Wrote(io, LAST_SYNC_KEY)
    /\ Wrote(io, SKILL_NAMES_CACHE_KEY)
    /\ embeddings = mapRows(RemoteRows)
    /\ EMBEDDINGS_CACHE_KEY \in DOMAIN store
    /\ loadCachedEmbeddings(M, {}).ret # embeddings

-----------------------------------------------------------------------------
(* C5 *)

\* C5: a getEmbeddings() call whose remote pull returns an error or throws
\* does not reject: it returns a list, the set in memory, which is the set
\* the instance held before the call when it was initialized with one.
C5_FailedPullStillAnswers ==
    [][(hist' = Call("getEmbeddings", << >>) /\ SelectAnswer(io') \in {"error", "throw"}) =>
           /\ ret'.kind = "list"
           /\ ret'.list = embeddings'
           /\ (initialized /\ Len(embeddings) > 0) => ret'.list = embeddings]_vars

\* a getEmbeddings() whose select threw answered with a set that is not empty
C5_Witness ==
    /\ hist = Call("getEmbeddings", << >>)
    /\ SelectAnswer(io) = "throw"
    /\ ret.kind = "list"
    /\ Len(ret.list) > 0

-----------------------------------------------------------------------------
(* C6 *)

\* whether a call to the persisted store threw during the call
StoreFailed(log) ==
    \E k \in 1..Len(log) : log[k][1] \in {"getString", "set"} /\ log[k][3] = "throw"

\* C6: a failure of the persisted store, read or write, never makes
\* initialize, setOfflineMode, getLastSyncTime or getEmbeddings reject.
C6_StoreFailureNeverRejects ==
    (hist.op \in {"initialize", "setOfflineMode", "getLastSyncTime", "getEmbeddings"}
         /\ StoreFailed(io)) =>
        ret.kind # "rejected"

-----------------------------------------------------------------------------
(* C7 *)

\* C7: initialize() on an initialized instance reads nothing and changes
\* nothing: no call to the store or the file system, the flag and the set in
\* memory as they were.
C7_InitializeOnce ==
    [][(hist' = Call("initialize", << >>) /\ initialized) =>
           /\ io' = << >>
           /\ ret' = Undefined
           /\ UNCHANGED <<isOfflineMode, initialized, embeddings, store, file>>]_vars

\* initialize() returned without any I/O although the persisted flag and the
\* persisted blob both differ from what the instance holds
C7_Witness ==
    /\ hist = Call("initialize", << >>)
    /\ io = << >>
    /\ initialized
    /\ OFFLINE_MODE_KEY \in DOMAIN store
    /\ parseBool(store[OFFLINE_MODE_KEY]) # isOfflineMode
    /\ EMBEDDINGS_CACHE_KEY \in DOMAIN store
    /\ parseEmbeddings(store[EMBEDDINGS_CACHE_KEY]) # embeddings

-----------------------------------------------------------------------------
(* C8 *)

\* the positions of `name` in `list`
Hits(list, name) == {i \in 1..Len(list) : list[i].skill = name}

\* C8: getEmbeddingBySkill(name) returns the first entry, in the order of the
\* set getEmbeddings() gave, whose skill equals name, and undefined when the
\* set has no such entry.
C8_FirstExactMatch ==
    (hist.op = "getEmbeddingBySkill" /\ ret.kind # "rejected") =>
        IF Hits(ret.list, hist.arg) = {}
        THEN ret.kind = "undefined" /\ ret.entry = << >>
        ELSE /\ ret.kind = "entry"
             /\ \E i \in Hits(ret.list, hist.arg) :
                    /\ \A j \in Hits(ret.list, hist.arg) : i <= j
                    /\ ret.entry = <<ret.list[i]>>

\* the lookup answered from a set that holds the name twice, with two
\* different vectors
C8_Witness ==
    /\ hist.op = "getEmbeddingBySkill"
    /\ ret.kind = "entry"
    /\ \E i, j \in Hits(ret.list, hist.arg) :
          i < j /\ ret.list[i] # ret.list[j] /\ ret.entry = <<ret.list[i]>>

-----------------------------------------------------------------------------
(* C9 *)

\* C9: uploadToCloud() always resolves to a boolean; in offline mode it
\* resolves to false without any call to the remote service, the store or
\* the file system, and leaves the instance as it was.
C9_OfflineUploadRefused ==
    [][(hist' = Call("uploadToCloud", << >>)) =>
           /\ ret'.kind = "boolean"
           /\ isOfflineMode =>
                  /\ ret' = RetBool(FALSE)
                  /\ io' = << >>
                  /\ UNCHANGED <<isOfflineMode, initialized, embeddings, store, file>>]_vars

\* an upload asked in offline mode, with a set in memory, gave false
C9_Witness ==
    /\ hist = Call("uploadToCloud", << >>)
    /\ isOfflineMode
    /\ Len(embeddings) > 0
    /\ ret = RetBool(FALSE)
    /\ io = << >>

-----------------------------------------------------------------------------
(* C10 *)

\* C10: when a sync receives the non-empty rows R, the set in memory is
\* exactly R, row for row in R's order (skill from skill_name, embedding from
\* embedding_vector), nothing of the previous set remaining; the timestamp
\* write is made, and once it completes the persisted last sync is the
\* current time.
C10_RefreshReplaces ==
    [][(hist'.op \in {"syncFromCloud", "getEmbeddings", "getEmbeddingBySkill"}
            /\ SelectAnswer(io') = "data") =>
           /\ embeddings' = [i \in 1..Len(RemoteRows) |->
                                [skill |-> RemoteRows[i].skill_name,
                                 embedding |-> RemoteRows[i].embedding_vector]]
           /\ TriedToWrite(io', LAST_SYNC_KEY)
           /\ Wrote(io', LAST_SYNC_KEY) => RecordedSync(store') = now]_vars

\* a sync on an initialized instance with a cached local set, later than the
\* start, received the rows and recorded the current time
C10_Witness ==
    /\ SyncedRows
    /\ initialized
    /\ EMBEDDINGS_CACHE_KEY \in DOMAIN store
    /\ Len(parseEmbeddings(store[EMBEDDINGS_CACHE_KEY])) > Len(RemoteRows)
    /\ embeddings = mapRows(RemoteRows)
    /\ now > StartTime
    /\ RecordedSync(store) = now

-----------------------------------------------------------------------------
(* C11 *)

\* where in the log the remote step `what` is, 0 if it was not issued
Step(log, what) ==
    IF Asked(log, what)
    THEN CHOOSE k \in 1..Len(log) : log[k][1] = "remote" /\ log[k][2] = what
    ELSE 0

\* the answer the remote step `what` gave, "none" if it was not issued
Answer(log, what) == IF Asked(log, what) THEN log[Step(log, what)][3] ELSE "none"

\* the delete answered with an error that is a permission error
DeleteDenied(log) ==
    /\ Answer(log, "delete") = "error"
    /\ \/ log[Step(log, "delete")][4] = "42501"
       \/ includes(log[Step(log, "delete")][5], PermissionDeniedText)

\* C11: an online uploadToCloud() issues its remote steps in the order
\* session check, anonymous sign-in (only without a session), delete, upsert.
\* A failed sign-in ends it with false before delete and upsert; a delete
\* failing with a permission error (code 42501, or a message containing
\* "permission denied") is followed by the upsert; a delete failing otherwise
\* ends it with false before the upsert; the last-sync timestamp is written
\* only after an upsert without error, and true is returned only after that
\* write.
C11_UploadStepsInOrder ==
    [][(hist' = Call("uploadToCloud", << >>) /\ ~isOfflineMode) =>
           /\ Asked(io', "getSession")
           /\ Asked(io', "signInAnonymously") =>
                  /\ Answer(io', "getSession") = "none"
                  /\ Step(io', "getSession") < Step(io', "signInAnonymously")
           /\ Asked(io', "delete") =>
                  /\ Step(io', "getSession") < Step(io', "delete")
                  /\ Step(io', "signInAnonymously") < Step(io', "delete")
                  /\ Answer(io', "getSession") = "none" =>
                         Answer(io', "signInAnonymously") = "ok"
           /\ Asked(io', "upsert") =>
                  /\ Asked(io', "delete")
                  /\ Step(io', "delete") < Step(io', "upsert")
           /\ (Answer(io', "getSession") = "none"
                   /\ Answer(io', "signInAnonymously") # "ok") =>
                  /\ ~Asked(io', "delete")
                  /\ ~Asked(io', "upsert")
                  /\ ret' = RetBool(FALSE)
           /\ DeleteDenied(io') => Asked(io', "upsert")
           /\ (Answer(io', "delete") \in {"error", "throw"} /\ ~DeleteDenied(io')) =>
                  /\ ~Asked(io', "upsert")
                  /\ ret' = RetBool(FALSE)
           /\ TriedToWrite(io', LAST_SYNC_KEY) => Answer(io', "upsert") = "ok"
           /\ ret' = RetBool(TRUE) => Wrote(io', LAST_SYNC_KEY)]_vars

\* an upload with a session had its delete refused with a message that
\* contains the text and another code, upserted, wrote the timestamp and
\* gave true
C11_Witness ==
    /\ hist = Call("uploadToCloud", << >>)
    /\ Answer(io, "getSession") = "session"
    /\ ~Asked(io, "signInAnonymously")
    /\ DeleteDenied(io)
    /\ io[Step(io, "delete")][4] # "42501"
    /\ Answer(io, "upsert") = "ok"
    /\ Wrote(io, LAST_SYNC_KEY)
    /\ RecordedSync(store) = now
    /\ ret = RetBool(TRUE)

-----------------------------------------------------------------------------
(* C12 *)

\* whether the call went to the file system
TouchedFile(log) == \E k \in 1..Len(log) : log[k][1] = "file"

\* whether a read of the call failed: of the store, or of the file
ReadFailed(log) ==
    \E k \in 1..Len(log) :
        /\ log[k][3] = "throw"
        /\ \/ log[k][1] = "getString"
           \/ log[k][1] = "file" /\ log[k][2] \in {"getInfoAsync", "readAsStringAsync"}

\* whether the loadFromCsv() within the call ended in its catch, giving []
CsvFailed(log) ==
    \E k \in 1..Len(log) :
        /\ log[k][3] = "throw"
        /\ \/ log[k][1] = "file" /\ log[k][2] \in {"getInfoAsync", "readAsStringAsync"}
           \/ log[k][1] = "set"

\* C12: loadCachedEmbeddings() never throws; with the blob present it sets
\* the set in memory to the decoded blob and returns it without going to the
\* file; with the blob absent it returns what loadFromCsv() returns; when a
\* read fails it returns the empty sequence and leaves the store as it was.
C12_LoadNeverThrowsAndDefaults ==
    [][(hist' = Call("loadCachedEmbeddings", << >>)) =>
           /\ ret'.kind = "list"
           /\ (EMBEDDINGS_CACHE_KEY \in DOMAIN store /\ ~ReadFailed(io')) =>
                  /\ embeddings' = parseEmbeddings(store[EMBEDDINGS_CACHE_KEY])
                  /\ ret'.list = embeddings'
                  /\ ~TouchedFile(io')
           /\ (EMBEDDINGS_CACHE_KEY \notin DOMAIN store
                   /\ io'[1] = <<"getString", EMBEDDINGS_CACHE_KEY, "ok">>) =>
                  ret'.list = IF CsvFailed(io') THEN << >> ELSE embeddings'
           /\ ReadFailed(io') =>
                  /\ ret'.list = << >>
                  /\ store' = store]_vars

-----------------------------------------------------------------------------
(* The parsing of the file: loadFromCsv on every short content *)

\* the characters of the explored contents: a name, the comma, a space, a
\* digit, the quote and the line end
CsvChars == {"a", ",", " ", "1", "\"", "\n"}

\* the header followed by any text of at most MaxBody characters
CsvContents ==
    {Header \o body : body \in UNION {[1..n -> CsvChars] : n \in 0..MaxBody}}

\* a fresh instance on a web build whose file holds one of the contents
CsvInit ==
    /\ isOfflineMode = FALSE
    /\ initialized = FALSE
    /\ embeddings = << >>
    /\ platform = "web"
    /\ \E content \in CsvContents : file = [exists |-> TRUE, content |-> content]
    /\ store = InitStore("absent", FALSE, FALSE, << >>)
    /\ now = StartTime
    /\ io = << >>
    /\ hist = NoCall
    /\ ret = Undefined
    /\ calls = NoCalls
    /\ ScreenNotMounted

CsvNext == CallLoadFromCsv

SpecCsv == CsvInit /\ [][CsvNext]_vars

-----------------------------------------------------------------------------
(* Overlapping calls: every method runs up to an await, and another call may
   run before it goes on.  A store call takes effect when it is made, and
   delivers when the caller goes on. *)

\* what mmkvStorage.getString(key) will deliver
read(st, key) ==
    [defined |-> key \in DOMAIN st, text |-> IF key \in DOMAIN st THEN st[key] ELSE << >>]

\* the call suspended at the await `pc`
Await(f, pc, got) == [f EXCEPT !.pc = pc, !.got = got]

\* the call returned
Return(f, value) == [f EXCEPT !.pc = "done", !.got = NoValue, !.ret = value]

\* loadCachedEmbeddings begins, and awaits the blob
enterLoad(m, f) ==
    [m |-> m, f |-> Await(f, "cachedData", read(m.store, EMBEDDINGS_CACHE_KEY))]

\* getEmbeddings from `if (!this.isOfflineMode)` on
afterLoad(m, f) ==
    IF m.isOfflineMode THEN [m |-> m, f |-> Return(f, m.embeddings)]
    ELSE [m |-> m, f |-> Await(f, "lastSyncStr", read(m.store, LAST_SYNC_KEY))]

\* getEmbeddings from `if (!this.embeddings.length)` on
afterInitialize(m, f) ==
    IF Len(m.embeddings) = 0 THEN enterLoad(m, [f EXCEPT !.phase = "getEmbeddings"])
    ELSE afterLoad(m, [f EXCEPT !.phase = "getEmbeddings"])

\* the call begins and runs to its first await
begin(m, f) ==
    IF f.op = "setOfflineMode"
    THEN [m |-> [m EXCEPT !.isOfflineMode = f.arg,
                          !.store = put(@, OFFLINE_MODE_KEY, stringifyBool(f.arg))],
          f |-> Await(f, "set", NoValue)]
    ELSE IF alreadyInitialized(m)
    THEN IF f.op = "initialize" THEN [m |-> m, f |-> Return(f, << >>)]
         ELSE afterInitialize(m, f)
    ELSE [m |-> m,
          f |-> Await([f EXCEPT !.phase = "initialize"], "offlineModeStr",
                      read(m.store, OFFLINE_MODE_KEY))]

\* The awaited call has delivered: the call runs to its next await, or to its
\* return.  sel is the answer of the select, t the clock reading.  The file
\* and store calls of a loadFromCsv() are taken in one step.
resume(m, f, sel, t) ==
    CASE f.pc = "set" -> [m |-> m, f |-> Return(f, << >>)]
      [] f.pc = "offlineModeStr" ->
            enterLoad([m EXCEPT !.isOfflineMode =
                                    IF truthy(f.got) THEN parseBool(f.got.text) ELSE FALSE], f)
      [] f.pc = "cachedData" ->
            [m |-> IF truthy(f.got)
                   THEN [m EXCEPT !.embeddings = parseEmbeddings(f.got.text)]
                   ELSE [loadFromCsv(m, {}).m EXCEPT !.io = << >>],
             f |-> Await(f, "loaded", NoValue)]
      [] f.pc = "loaded" ->
            IF f.phase = "initialize"
            THEN IF f.op = "initialize"
                 THEN [m |-> [m EXCEPT !.initialized = TRUE], f |-> Return(f, << >>)]
                 ELSE afterInitialize([m EXCEPT !.initialized = TRUE], f)
            ELSE afterLoad(m, f)
      [] f.pc = "lastSyncStr" ->
            IF stale(t, IF truthy(f.got) THEN parseNumber(f.got.text) ELSE 0)
            THEN [m |-> m, f |-> Await(f, "select", NoValue)]
            ELSE [m |-> m, f |-> Return(f, m.embeddings)]
      [] f.pc = "select" ->
            IF sel.kind \notin {"throw", "error"} /\ hasRows(sel)
            THEN [m |-> [m EXCEPT !.embeddings = refreshed(@, sel.data),
                                  !.store = put(@, LAST_SYNC_KEY, stringifyNumber(t))],
                  f |-> Await(f, "setLastSync",
                              [defined |-> TRUE,
                               text |-> [i \in 1..Len(sel.data) |-> sel.data[i].skill_name]])]
            ELSE [m |-> m, f |-> Return(f, m.embeddings)]
      [] f.pc = "setLastSync" ->
            [m |-> [m EXCEPT !.store = put(@, SKILL_NAMES_CACHE_KEY, f.got.text)],
             f |-> Await(f, "setNames", NoValue)]
      [] f.pc = "setNames" -> [m |-> m, f |-> Return(f, m.embeddings)]

\* the calls that may overlap
AsyncOps ==
    {[op |-> "initialize", arg |-> FALSE], [op |-> "getEmbeddings", arg |-> FALSE]}
        \cup {[op |-> "setOfflineMode", arg |-> b] : b \in BOOLEAN}

\* call c has run a stretch: m is what it left, f where it is
Settle(m, c, f) ==
    /\ isOfflineMode' = m.isOfflineMode
    /\ initialized' = m.initialized
    /\ embeddings' = m.embeddings
    /\ store' = m.store
    /\ file' = m.file
    /\ calls' = [calls EXCEPT !.frame[c] = f]
    /\ UNCHANGED <<platform, now, io, hist, ret, screen>>

AsyncInit == Constructed /\ calls = [NoCalls EXCEPT !.from = M]

BeginCall ==
    \E c \in 1..MaxCalls, o \in AsyncOps :
        /\ calls.frame[c].pc = "idle"
        /\ \A d \in 1..(c - 1) : calls.frame[d].pc # "idle"
        /\ LET r == begin(M, [IdleFrame EXCEPT !.op = o.op, !.arg = o.arg])
           IN Settle(r.m, c, r.f)

ResumeCall ==
    \E c \in 1..MaxCalls :
        /\ calls.frame[c].pc \notin {"idle", "done"}
        /\ \E sel \in IF calls.frame[c].pc = "select" THEN SelectOutcomes ELSE {AnySelect} :
               LET r == resume(M, calls.frame[c], sel, now)
               IN Settle(r.m, c, r.f)

AsyncNext == BeginCall \/ ResumeCall

SpecAsync == AsyncInit /\ [][AsyncNext]_vars

-----------------------------------------------------------------------------
(* C13 *)

\* C13: loadFromCsv() never throws and, when it does not fail, leaves one
\* entry per non-blank row after the header that has a name and an embedding
\* field (the text before and after the first comma), in row order, with the
\* row's name and as many vector components as the field, quotes stripped,
\* has whitespace-separated tokens.
C13_OneEntryPerRowTokenCount ==
    LET NonBlank(row) == \E i \in 1..Len(row) : ~IsSpace(row[i])
        Comma(row) ==
            IF \E i \in 1..Len(row) : row[i] = ","
            THEN CHOOSE i \in 1..Len(row) :
                     row[i] = "," /\ \A j \in 1..(i - 1) : row[j] # ","
            ELSE 0
        Name(row) == SubSeq(row, 1, Comma(row) - 1)
        Field(row) == SubSeq(row, Comma(row) + 1, Len(row))
        HasBoth(row) == Comma(row) > 0 /\ Len(Name(row)) > 0 /\ Len(Field(row)) > 0
        Tokens(text) ==
            Cardinality({i \in 1..Len(text) :
                            ~IsSpace(text[i]) /\ (i = 1 \/ IsSpace(text[i - 1]))})
        Unquoted(text) == SelectSeq(text, LAMBDA c : c # "\"")
        Kept(rows) == SelectSeq(Tail(rows), LAMBDA row : NonBlank(row) /\ HasBoth(row))
    IN  (hist = Call("loadFromCsv", << >>)) =>
            /\ ret.kind = "list"
            /\ ~CsvFailed(io) =>
                   LET kept == Kept(split(file.content, "\n"))
                   IN /\ ret.list = embeddings
                      /\ Len(embeddings) = Len(kept)
                      /\ \A i \in 1..Len(kept) :
                             /\ embeddings[i].skill = Name(kept[i])
                             /\ Len(embeddings[i].embedding)
                                    = Tokens(Unquoted(Field(kept[i])))

-----------------------------------------------------------------------------
(* C14 *)

\* what running call f alone, from start to end, leaves of m
alone(f, m, sel, t) ==
    IF f.op = "initialize" THEN [initialize(m, {}).m EXCEPT !.io = << >>]
    ELSE [getEmbeddings(m, {}, sel, t).m EXCEPT !.io = << >>]

\* both calls have returned, and both were initialize() or getEmbeddings()
BothReturned ==
    \A c \in 1..MaxCalls :
        calls.frame[c].pc = "done" /\ calls.frame[c].op \in {"initialize", "getEmbeddings"}

\* a remote pull of rows completed during the calls: its time was recorded
PullCompleted ==
    LAST_SYNC_KEY \in DOMAIN store /\ LAST_SYNC_KEY \notin DOMAIN calls.from.store

\* C14: when two initialize()/getEmbeddings() calls on an instance that was
\* not initialized have both returned, however they overlapped, the set in
\* memory, the offline flag and the store are what running the two calls one
\* after the other, in one of the two orders and with some answers of the
\* remote service, leaves; and when a remote pull of rows completed during
\* them, the set in memory is the pulled one.
C14_OverlapAsOneAfterTheOther ==
    BothReturned =>
        /\ \E first \in 1..MaxCalls, s1, s2 \in SelectOutcomes :
               LET second == CHOOSE c \in 1..MaxCalls : c # first
                   m1 == alone(calls.frame[first], calls.from, s1, now)
                   m2 == alone(calls.frame[second], m1, s2, now)
               IN /\ m2.embeddings = embeddings
                  /\ m2.isOfflineMode = isOfflineMode
                  /\ m2.store = store
        /\ PullCompleted => embeddings = mapRows(RemoteRows)

-----------------------------------------------------------------------------
(* C15 *)

\* a setOfflineMode() call, or an initialize() (called directly or by
\* getEmbeddings at line 247), is between its call and its return
FlagCallInFlight ==
    \E c \in 1..MaxCalls :
        /\ calls.frame[c].pc \notin {"idle", "done"}
        /\ calls.frame[c].op = "setOfflineMode" \/ calls.frame[c].phase = "initialize"

\* the offline flag as the store holds it, absent meaning false
PersistedOfflineMode ==
    LET got == read(store, OFFLINE_MODE_KEY)
    IN  IF truthy(got) THEN parseBool(got.text) ELSE FALSE

\* C15: once initialize() has completed and no setOfflineMode() or
\* initialize() call is in flight, the offline flag in memory is the one the
\* store holds, however the calls overlapped.
C15_OfflineFlagAsPersisted ==
    (initialized /\ ~FlagCallInFlight) => isOfflineMode = PersistedOfflineMode

-----------------------------------------------------------------------------
(* C16 *)

\* the remote select of the call answered without error and without rows
NoRows(log) == SelectAnswer(log) \in {"empty", "null"}

\* C16: when the remote select of a syncFromCloud() call succeeds with empty
\* or null data, the set in memory and the store are what they were before
\* the call, neither the last-sync timestamp nor the skill names are written,
\* and the call returns the set.  When that happens in a getEmbeddings() call,
\* the call returns the set in memory, the recorded sync is what it was, and a
\* getEmbeddings() call made then or later finds the sync stale and pulls
\* again (or rejects on a store read that fails before the pull).
C16_EmptyPullRecordsNothing ==
    [][/\ (hist' = Call("syncFromCloud", << >>) /\ NoRows(io')) =>
             /\ embeddings' = embeddings
             /\ store' = store
             /\ ret' = RetList(embeddings)
       /\ (hist' \in {Call("syncFromCloud", << >>), Call("getEmbeddings", << >>)}
               /\ NoRows(io')) =>
             /\ ~TriedToWrite(io', LAST_SYNC_KEY)
             /\ ~TriedToWrite(io', SKILL_NAMES_CACHE_KEY)
       /\ (hist' = Call("getEmbeddings", << >>) /\ NoRows(io')) =>
             /\ ret' = RetList(embeddings')
             /\ ~isOfflineMode'
             /\ RecordedSync(store') = RecordedSync(store)
             /\ (SKILL_NAMES_CACHE_KEY \in DOMAIN store')
                    = (SKILL_NAMES_CACHE_KEY \in DOMAIN store)
             /\ \A t2 \in LaterReadings :
                    /\ beforeSync(M', {}, t2).sync
                    /\ \A F \in Faults(GetSites') :
                            beforeSync(M', F, t2).sync \/ beforeSync(M', F, t2).threw]_vars

\* a getEmbeddings() call on an instance holding a set and a recorded sync
\* pulled and received an empty answer; the call that follows pulls again
C16_Witness ==
    /\ hist = Call("getEmbeddings", << >>)
    /\ SelectAnswer(io) = "empty"
    /\ Len(embeddings) > 0
    /\ ret = RetList(embeddings)
    /\ LAST_SYNC_KEY \in DOMAIN store
    /\ Asked(getEmbeddings(M, {}, AnySelect, now).m.io, "select")

-----------------------------------------------------------------------------
(* The weapon skills screen (WeaponSkillManager).  The handlers read `base`
   and `skills` as the render that created them selected them from the store,
   and every dispatch is followed by a render before the next event. *)

weaponOptions ==
    << [weaponHeft |-> "2-handed", id |-> 1, level |-> 1, weaponType |-> "Stab"],
       [id |-> 2, level |-> 1, weaponHeft |-> "2-handed", weaponType |-> "Swing"],
       [id |-> 3, level |-> 1, weaponHeft |-> "2-handed", weaponType |-> "Draw"],
       [id |-> 4, level |-> 1, weaponHeft |-> "2-handed", weaponType |-> "Fire"],
       [id |-> 5, level |-> 1, weaponHeft |-> "1-handed", weaponType |-> "Fire"],
       [id |-> 6, level |-> 1, weaponHeft |-> "1-handed", weaponType |-> "Swing"],
       [id |-> 7, level |-> 1, weaponHeft |-> "1-handed", weaponType |-> "Stab"],
       [id |-> 8, level |-> 1, weaponHeft |-> "1-handed", weaponType |-> "Draw"],
       [id |-> 9, level |-> 1, weaponHeft |-> "Unarmed", weaponType |-> "Swing"],
       [id |-> 13, level |-> 1, weaponHeft |-> "Versatile", weaponType |-> "Stab"],
       [id |-> 14, level |-> 1, weaponHeft |-> "Versatile", weaponType |-> "Swing"] >>

\* The values calculateSkillCost(level) and calculateTotalSkillCost(level)
\* may return: the functions are imported and any whole number of points up
\* to MaxCost is taken for each call.
SkillCosts == 0..MaxCost

\* const skills = weaponSkills || []
skills == character.skills.weaponSkills

base == character.base

\* updatedSkills.findIndex((s) => s.id === skill.id)
findIndex(list, id) ==
    IF \E k \in 1..Len(list) : list[k].id = id
    THEN (CHOOSE k \in 1..Len(list) :
              list[k].id = id /\ \A j \in 1..(k - 1) : list[j].id # id) - 1
    ELSE -1

\* skills.filter((s) => s.id !== skill.id)
without(list, id) == SelectSeq(list, LAMBDA sk : sk.id # id)

\* variant: only the points remaining are updated
spendRemainingOnly(b, cost) ==
    [b EXCEPT !.buildPointsRemaining = b.buildPointsRemaining - cost]

\* updateMultipleFields on buildPointsRemaining and buildPointsSpent: `cost`
\* points move from remaining to spent, from the values in b
spend(b, cost) ==
    [buildPointsRemaining |-> b.buildPointsRemaining - cost,
     buildPointsSpent |-> b.buildPointsSpent + cost]

\* the points explored
InRange(b) ==
    /\ b.buildPointsRemaining \in (0 - MaxPoints)..MaxPoints
    /\ b.buildPointsSpent \in (0 - MaxPoints)..(2 * MaxPoints)

\* the two dispatches of a handler, and the record of the event
Dispatch(updatedSkills, b, event) ==
    /\ InRange(b)
    /\ character' = [base |-> b, skills |-> [weaponSkills |-> updatedSkills]]
    /\ hist' = event

\* the list is shown, with no modal and no dialog over it
ListShown == ~modalVisible /\ ~alert.open

\* the embedding database is left as constructed
DatabaseIdle ==
    UNCHANGED <<isOfflineMode, initialized, embeddings, store, file, platform, now,
                io, ret, calls>>

\* onAddPress
onAddPress ==
    /\ ListShown
    /\ modalVisible' = TRUE
    /\ hist' = Call("onAddPress", << >>)
    /\ UNCHANGED <<character, alert>>
    /\ DatabaseIdle

\* the modal's Cancel button and onRequestClose
onRequestClose ==
    /\ modalVisible
    /\ modalVisible' = FALSE
    /\ hist' = Call("onRequestClose", << >>)
    /\ UNCHANGED <<character, alert>>
    /\ DatabaseIdle

selectWeaponSkill ==
    /\ modalVisible
    /\ Len(skills) < MaxSkills
    /\ \E o \in 1..MaxOptions, costLevel1 \in SkillCosts :
          Dispatch(Append(skills, weaponOptions[o]), spend(base, costLevel1),
                   Call("selectWeaponSkill", <<weaponOptions[o], costLevel1>>))
    /\ modalVisible' = FALSE
    /\ UNCHANGED alert
    /\ DatabaseIdle

\* handleLevelChange(skill, increase), the cost function returning `cost` if
\* it is called.  The handler is taken at every level: the buttons are
\* disabled at levels 1 and 10, and the handler has its own test.  The
\* notice it shows when the points do not suffice has no button that acts.
handleLevelChange ==
    /\ ListShown
    /\ \E i \in 1..Len(skills), increase \in BOOLEAN, cost \in SkillCosts :
          LET skill == skills[i]
              index == findIndex(skills, skill.id)
              currentLevel == skill.level
              newLevel == IF increase THEN currentLevel + 1 ELSE currentLevel - 1
              costDifference == IF increase THEN cost ELSE 0 - cost
              event == Call("handleLevelChange", <<skill, increase, cost>>)
          IN  IF index = -1 \/ newLevel < 1 \/ newLevel > 10
                 \/ (increase /\ base.buildPointsRemaining < costDifference)
              THEN hist' = event /\ UNCHANGED character
              ELSE Dispatch([skills EXCEPT ![index + 1] = [skill EXCEPT !.level = newLevel]],
                            spend(base, costDifference), event)
    /\ UNCHANGED <<modalVisible, alert>>
    /\ DatabaseIdle

\* handleDeleteSkill(skill): the dialog opens, its Delete button holding the
\* skill, and base and skills as the handler saw them
handleDeleteSkill ==
    /\ ListShown
    /\ \E i \in 1..Len(skills) :
          /\ alert' = [open |-> TRUE, skill |-> skills[i], base |-> base, skills |-> skills]
          /\ hist' = Call("handleDeleteSkill", <<skills[i]>>)
    /\ UNCHANGED <<character, modalVisible>>
    /\ DatabaseIdle

\* the dialog's Cancel button
pressCancel ==
    /\ alert.open
    /\ alert' = NoAlert
    /\ hist' = Call("pressCancel", << >>)
    /\ UNCHANGED <<character, modalVisible>>
    /\ DatabaseIdle

\* the dialog's Delete button: onPress
pressDelete ==
    /\ alert.open
    /\ \E refund \in SkillCosts :
          Dispatch(without(alert.skills, alert.skill.id), spend(alert.base, 0 - refund),
                   Call("pressDelete", <<alert.skill, refund>>))
    /\ alert' = NoAlert
    /\ UNCHANGED modalVisible
    /\ DatabaseIdle

\* the screen is mounted on a character that has spent nothing
WeaponInit ==
    /\ isOfflineMode = FALSE
    /\ initialized = FALSE
    /\ embeddings = << >>
    /\ platform = "web"
    /\ file = [exists |-> TRUE, content |-> CsvSample]
    /\ store = InitStore("absent", FALSE, FALSE, << >>)
    /\ now = StartTime
    /\ io = << >>
    /\ hist = NoCall
    /\ ret = Undefined
    /\ calls = NoCalls
    /\ \E points \in 0..MaxPoints :
          character = [NoCharacter EXCEPT !.base.buildPointsRemaining = points]
    /\ modalVisible = FALSE
    /\ alert = NoAlert

WeaponNext ==
    \/ onAddPress
    \/ onRequestClose
    \/ selectWeaponSkill
    \/ handleLevelChange
    \/ handleDeleteSkill
    \/ pressCancel
    \/ pressDelete

SpecWeapon == WeaponInit /\ [][WeaponNext]_vars

-----------------------------------------------------------------------------
(* C17 *)

\* the handleLevelChange(skill, increase) on record is one the handler
\* refuses in the state before it: the level would leave 1..10, or the
\* increase costs more than the build points remaining
Refused ==
    /\ hist'.op = "handleLevelChange"
    /\ LET skill == hist'.arg[1]
           increase == hist'.arg[2]
           cost == hist'.arg[3]
           newLevel == IF increase THEN skill.level + 1 ELSE skill.level - 1
       IN  \/ newLevel \notin 1..10
           \/ increase /\ cost > base.buildPointsRemaining

\* C17: every step of the weapon skills screen changes buildPointsRemaining
\* and buildPointsSpent by equal and opposite amounts, so that their sum
\* never changes; and a level change that would leave the range 1..10, or an
\* increase that costs more than buildPointsRemaining, changes neither the
\* skills list nor the build points.
C17_BuildPointsConserved ==
    [][/\ base'.buildPointsRemaining - base.buildPointsRemaining
              = base.buildPointsSpent - base'.buildPointsSpent
       /\ base'.buildPointsRemaining + base'.buildPointsSpent
              = base.buildPointsRemaining + base.buildPointsSpent
       /\ Refused => character' = character]_vars

\* points were spent on a skill, and an increase of it that costs more than
\* the points remaining was refused: the skill is at the level it had
C17_Witness ==
    /\ hist.op = "handleLevelChange"
    /\ hist.arg[2]
    /\ hist.arg[3] > base.buildPointsRemaining
    /\ base.buildPointsSpent > 0
    /\ skills = <<hist.arg[1]>>
    /\ hist.arg[1].level \in 2..9

====
